---- MODULE Spec2Model ----
(***************************************************************************)
(* Model of src/src/common/NFTget.ts: one call of getNFTs, the locator      *)
(* query it awaits, the per-record enrichment tasks that                    *)
(* turnMetadatasIntoNFTs fans out, and the merge.  Every await of the       *)
(* source is one action (the completion of the awaited call); the           *)
(* collaborators (ledger, decoders, HTTP) answer nondeterministically.      *)
(***************************************************************************)
EXTENDS Integers, Sequences, FiniteSets, TLC

\* ------------------------------------------------------------------ bounds

\* largest number of metadata records a locator query answers with
MaxRecords == 2

\* longest creators list passed to getNFTs
MaxCreators == 1

\* longest ranked list getTokenLargestAccounts answers with
MaxHolders == 2

\* ------------------------------------------------------------------ values

\* JavaScript's undefined (an unset parameter, an unassigned let, a missing field)
Undefined == [t |-> "undefined"]

\* the object literal {} : an object without any field
EmptyObject == [k \in {} |-> Undefined]

\* a rejected promise / a thrown exception, as the outcome of a call
Threw == [t |-> "threw"]

\* a JavaScript number held where undefined may be held as well
Number(n) == [t |-> "number", v |-> n]

\* a ledger address
PublicKey(kind, n) == [t |-> "PublicKey", of |-> kind, n |-> n]

\* a[k] of JavaScript: undefined when the object has no such field
Get(obj, k) == IF k \in DOMAIN obj THEN obj[k] ELSE Undefined

\* {...a, ...b} of JavaScript: the fields of a, overridden by the fields of b
Spread(a, b) == [k \in (DOMAIN a) \cup (DOMAIN b) |-> IF k \in DOMAIN b THEN b[k] ELSE a[k]]

\* truthiness of a parameter that is an object or undefined
Truthy(v) == v # Undefined

\* ------------------------------------------------------------------ selectors

\* the creators lists of the model: undefined, [] and the lists up to MaxCreators
CreatorLists == {[t |-> "Array", length |-> n] : n \in 0..MaxCreators}

\* INFTParams: every combination of set and unset selectors
INFTParams == [owner : {Undefined, PublicKey("owner", 0)}, creators : {Undefined} \cup CreatorLists, mint : {Undefined, PublicKey("mint", 0)}, updateAuthority : {Undefined, PublicKey("updateAuthority", 0)}]

\* the parameters once getNFTs no longer reads them (after line 185)
Consumed == [t |-> "consumed"]

\* faulty variant of Dispatch: creators tested without its length, so that an
\* empty list counts as set
DispatchEmptyCreators(p) == IF Truthy(p.owner) THEN [fn |-> "getMetadataByOwner", arg |-> p.owner]
                            ELSE IF Truthy(p.creators) THEN [fn |-> "getMetadataByCreators", arg |-> p.creators]
                            ELSE IF Truthy(p.mint) THEN [fn |-> "getMetadataByMint", arg |-> p.mint]
                            ELSE IF Truthy(p.updateAuthority) THEN [fn |-> "getMetadataByUpdateAuthority", arg |-> p.updateAuthority]
                            ELSE [fn |-> "throw", arg |-> Undefined]

\* faulty variant of Dispatch: the final else is missing, the last branch is taken
\* whether or not updateAuthority is set
DispatchNoElse(p) == IF Truthy(p.owner) THEN [fn |-> "getMetadataByOwner", arg |-> p.owner]
                     ELSE IF Truthy(p.creators) /\ p.creators.length > 0 THEN [fn |-> "getMetadataByCreators", arg |-> p.creators]
                     ELSE IF Truthy(p.mint) THEN [fn |-> "getMetadataByMint", arg |-> p.mint]
                     ELSE [fn |-> "getMetadataByUpdateAuthority", arg |-> p.updateAuthority]

\* the if / else-if chain of getNFTs: the locator function it calls and the
\* argument it passes, or "throw" for the final else
Dispatch(p) == IF Truthy(p.owner) THEN [fn |-> "getMetadataByOwner", arg |-> p.owner]
               ELSE IF Truthy(p.creators) /\ p.creators.length > 0 THEN [fn |-> "getMetadataByCreators", arg |-> p.creators]
               ELSE IF Truthy(p.mint) THEN [fn |-> "getMetadataByMint", arg |-> p.mint]
               ELSE IF Truthy(p.updateAuthority) THEN [fn |-> "getMetadataByUpdateAuthority", arg |-> p.updateAuthority]
               ELSE [fn |-> "throw", arg |-> Undefined]

\* the message of the Error of line 187 (the InvalidSelector failure)
InvalidSelector == "You must pass one of owner / creators / mint / updateAuthority"

\* the rejection of a locator query, as getNFTs passes it on
LocatorFailure == "locator query failed"

\* ------------------------------------------------------------------ ledger data

\* programs.metadata.MetadataKey: the tag byte of an account of the metadata program
MetadataKey == [Uninitialized |-> 0, EditionV1 |-> 1, MasterEditionV1 |-> 2, ReservationListV1 |-> 3, MetadataV1 |-> 4, ReservationListV2 |-> 5, MasterEditionV2 |-> 6, EditionMarker |-> 7]

\* the tag bytes the account at an edition address carries in the model
Tags == {MetadataKey.EditionV1, MetadataKey.MasterEditionV1, MetadataKey.MasterEditionV2, MetadataKey.MetadataV1}

\* the i-th metadata account a locator query answers with
Metadata(i) == [pubkey |-> PublicKey("metadata", i), data |-> [mint |-> [t |-> "base58", n |-> i], data |-> [uri |-> [t |-> "uri", n |-> i]]]]

\* the answers of Metadata.findMany / findByOwnerV2: n accounts of n distinct mints
LocatorAnswers == {[i \in 1..n |-> Metadata(i)] : n \in 0..MaxRecords}

\* new PublicKey(base58 string)
NewPublicKey(s) == PublicKey("mint", s.n)

\* Edition.getPDA(mint): the edition address derived from a mint
EditionPDA(mint) == PublicKey("edition", mint.n)

\* the answers of getTokenLargestAccounts: ranked lists of 0..MaxHolders accounts
TokenLargestAccounts(mint) == {[value |-> [j \in 1..len |-> [address |-> PublicKey("tokenAccount", j), rank |-> j]]] : len \in 0..MaxHolders}

\* the account info Account.getInfo answers with, data[0] being the tag
AccountInfo(pda, key) == [t |-> "AccountInfo", pubkey |-> pda, key |-> key]

\* new programs.metadata.Edition(pda, info).data: it embeds the parent's address
EditionDataOf(pda, info) == [t |-> "EditionData", key |-> info.key, of |-> pda, parent |-> PublicKey("masterEdition", pda.n)]

\* new programs.metadata.MasterEdition(pda, info).data
MasterEditionDataOf(pda, info) == [t |-> "MasterEditionData", key |-> info.key, of |-> pda]

\* ------------------------------------------------------------------ helpers

\* okToFailAsync(callback, args, wantObject = false): the callback's value, or
\* on a throw the placeholder: {} when wantObject, undefined otherwise
okToFailAsync(outcome, wantObject) == IF outcome = Threw THEN (IF wantObject THEN EmptyObject ELSE Undefined) ELSE outcome

\* getEnumKeyByEnumValue(enum, value): the name of the member with that value
getEnumKeyByEnumValue(enum, value) == IF \E k \in DOMAIN enum : enum[k] = value THEN [t |-> "string", s |-> CHOOSE k \in DOMAIN enum : enum[k] = value] ELSE Undefined

\* arr.find(itm => itm[key] === v): the first such element, or undefined
Find(arr, key, v) == IF \E j \in DOMAIN arr : Get(arr[j], key) = v THEN arr[CHOOSE j \in DOMAIN arr : Get(arr[j], key) = v /\ \A h \in 1..(j - 1) : Get(arr[h], key) # v] ELSE Undefined

\* {...a, ...b} where b may be undefined (spreading undefined adds nothing)
SpreadOpt(a, b) == IF b = Undefined THEN a ELSE Spread(a, b)

\* joinArraysOnKey(arr1, arr2, key): arr1 in its order, each element extended
\* with the fields of the element of arr2 that has the same key
joinArraysOnKey(arr1, arr2, key) == [i \in DOMAIN arr1 |-> SpreadOpt(arr1[i], Find(arr2, key, Get(arr1[i], key)))]

\* faulty variant of getHolderByMint: the last account of the list is taken
getHolderByMintLast(tokens) == IF tokens = Threw THEN Threw ELSE IF Truthy(tokens) /\ Len(tokens.value) > 0 THEN tokens.value[Len(tokens.value)].address ELSE Undefined

\* getHolderByMint, given the answer of getTokenLargestAccounts
getHolderByMint(tokens) == IF tokens = Threw THEN Threw ELSE IF Truthy(tokens) /\ Len(tokens.value) > 0 THEN tokens.value[1].address ELSE Undefined

\* getExternalMetadata, given the answer of axios.get
getExternalMetadata(response) == IF response = Threw THEN Threw ELSE IF Truthy(response) THEN response.data ELSE Undefined

\* getParentEdition, given the answer of Account.getInfo for editionData.parent
getParentEdition(editionData, masterInfo) == IF masterInfo = Threw THEN Threw ELSE [masterEditionPDA |-> editionData.parent, masterEditionData |-> MasterEditionDataOf(editionData.parent, masterInfo)]

\* faulty variant of deserializeMetadataOnchain: the slice of line 149 left in,
\* NFTs.slice(0, 1)
deserializeMetadataOnchainSliced(ms) == [i \in (DOMAIN ms) \cap {1} |-> [mint |-> NewPublicKey(ms[i].data.mint), metadataPDA |-> ms[i].pubkey, metadataOnchain |-> ms[i].data]]

\* deserializeMetadataOnchain: one INFT per metadata account, in order
deserializeMetadataOnchain(ms) == [i \in DOMAIN ms |-> [mint |-> NewPublicKey(ms[i].data.mint), metadataPDA |-> ms[i].pubkey, metadataOnchain |-> ms[i].data]]

\* ------------------------------------------------------------------ getEditionInfoByMint

\* faulty variant of EditionTriage: the master cases written as the default of
\* the switch, so that every tag other than EditionV1 is decoded as a master
EditionTriageDefaultMaster(pda, info) == LET key == info.key
                                             untriaged == [editionType |-> getEnumKeyByEnumValue(MetadataKey, key), editionPDA |-> Undefined, editionData |-> Undefined, masterEditionPDA |-> Undefined, masterEditionData |-> Undefined]
                                         IN  IF key = MetadataKey.EditionV1 THEN [untriaged EXCEPT !.editionPDA = pda, !.editionData = EditionDataOf(pda, info)]
                                             ELSE [untriaged EXCEPT !.masterEditionData = MasterEditionDataOf(pda, info), !.masterEditionPDA = pda]

\* faulty variant of EditionTriage: the edition data is decoded before the
\* switch, for every tag
EditionTriageDecodingFirst(pda, info) == LET key == info.key
                                             untriaged == [editionType |-> getEnumKeyByEnumValue(MetadataKey, key), editionPDA |-> Undefined, editionData |-> EditionDataOf(pda, info), masterEditionPDA |-> Undefined, masterEditionData |-> Undefined]
                                         IN  IF key = MetadataKey.EditionV1 THEN [untriaged EXCEPT !.editionPDA = pda]
                                             ELSE IF key \in {MetadataKey.MasterEditionV1, MetadataKey.MasterEditionV2} THEN [untriaged EXCEPT !.masterEditionData = MasterEditionDataOf(pda, info), !.masterEditionPDA = pda]
                                             ELSE untriaged

\* the let-variables of getEditionInfoByMint after the switch on the tag, before
\* the parent is awaited
EditionTriage(pda, info) == LET key == info.key
                                untriaged == [editionType |-> getEnumKeyByEnumValue(MetadataKey, key), editionPDA |-> Undefined, editionData |-> Undefined, masterEditionPDA |-> Undefined, masterEditionData |-> Undefined]
                            IN  IF key = MetadataKey.EditionV1 THEN [untriaged EXCEPT !.editionPDA = pda, !.editionData = EditionDataOf(pda, info)]
                                ELSE IF key \in {MetadataKey.MasterEditionV1, MetadataKey.MasterEditionV2} THEN [untriaged EXCEPT !.masterEditionData = MasterEditionDataOf(pda, info), !.masterEditionPDA = pda]
                                ELSE untriaged

\* whether the switch goes on to await getParentEdition
NeedsParent(info) == info.key = MetadataKey.EditionV1

\* ------------------------------------------------------------------ state

VARIABLES params, pc, locatorCall, locatorQueries, EE, metadatas, NFTs, tasks, result, error

vars == <<params, pc, locatorCall, locatorQueries, EE, metadatas, NFTs, tasks, result, error>>

\* the locator call of getNFTs: none yet, pending with its function and argument,
\* or settled (fulfilled / rejected)
NoCall == [fn |-> "none", arg |-> Undefined, status |-> "none"]

Settled(status) == [fn |-> "none", arg |-> Undefined, status |-> status]

\* faulty variant of NewTask: the callback starts the edition resolution (and
\* with it the fetch of the edition account) before it awaits the holder lookup
NewTaskEager(n) == [pc |-> "getHolderByMint", address |-> Undefined, splTokenInfo |-> Undefined, splMintInfo |-> Undefined, metadataExternal |-> Undefined, key |-> Undefined, locals |-> EmptyObject, getInfo |-> <<EditionPDA(n.mint)>>, edition |-> EmptyObject]

\* the async callback of NFTs.map for INFT n, suspended at its first await; key
\* is the tag read at line 94 (undefined until, and unless, the fetch answers)
NewTask(n) == [pc |-> "getHolderByMint", address |-> Undefined, splTokenInfo |-> Undefined, splMintInfo |-> Undefined, metadataExternal |-> Undefined, key |-> Undefined, locals |-> EmptyObject, getInfo |-> <<>>, edition |-> EmptyObject]

\* getNFTs has been called with some parameters and has not run yet
Init == /\ params \in INFTParams
        /\ pc = "called"
        /\ locatorCall = NoCall
        /\ locatorQueries = 0
        /\ EE = <<>>
        /\ metadatas = <<>>
        /\ NFTs = <<>>
        /\ tasks = <<>>
        /\ result = <<>>
        /\ error = "none"

\* ------------------------------------------------------------------ getNFTs

\* lines 173-188: the selector chain, up to the await of the locator or the throw
GetNFTs == /\ pc = "called"
           /\ IF Dispatch(params).fn = "throw"
                 THEN /\ pc' = "raised"
                      /\ error' = InvalidSelector
                      /\ UNCHANGED <<locatorCall, locatorQueries>>
                 ELSE /\ pc' = "awaitLocator"
                      /\ locatorCall' = [fn |-> Dispatch(params).fn, arg |-> Dispatch(params).arg, status |-> "pending"]
                      /\ locatorQueries' = locatorQueries + 1
                      /\ UNCHANGED error
           /\ UNCHANGED <<params, EE, metadatas, NFTs, tasks, result>>

\* faulty variant of LocatorRejects: the rejection is caught and an empty answer
\* stands in for it
LocatorRejectsCaught == /\ pc = "awaitLocator"
                        /\ pc' = "located"
                        /\ metadatas' = <<>>
                        /\ locatorCall' = Settled("rejected")
                        /\ params' = Consumed
                        /\ UNCHANGED <<locatorQueries, EE, NFTs, tasks, result, error>>

\* the awaited locator query fails: getNFTs has no catch around the await, the
\* rejection is the rejection of getNFTs
LocatorRejects == /\ pc = "awaitLocator"
                  /\ pc' = "raised"
                  /\ error' = LocatorFailure
                  /\ locatorCall' = Settled("rejected")
                  /\ params' = Consumed
                  /\ UNCHANGED <<locatorQueries, EE, metadatas, NFTs, tasks, result>>

\* the awaited locator query answers: metadatas is assigned; the parameters are
\* not read again
LocatorResolves == /\ pc = "awaitLocator"
                   /\ \E answer \in LocatorAnswers : metadatas' = answer
                   /\ pc' = "located"
                   /\ locatorCall' = Settled("fulfilled")
                   /\ params' = Consumed
                   /\ UNCHANGED <<locatorQueries, EE, NFTs, tasks, result, error>>

\* faulty variant of NoneFound: metadatas === [], which no array satisfies
NoneFoundByIdentity(ms) == FALSE

\* line 189: metadatas.length === 0
NoneFound(ms) == Len(ms) = 0

\* lines 193-198: EE.emit('loading', {...}), ee being what the sink has received
Emit(ee, ms) == Append(ee, [event |-> "loading", newStatus |-> "Loading", newProgress |-> 50, maxProgress |-> 90, found |-> Len(ms)])

\* lines 189-198: return [] for an empty answer, else emit 'loading'
CheckFound == /\ pc = "located"
              /\ IF NoneFound(metadatas)
                    THEN /\ pc' = "returned"
                         /\ result' = <<>>
                         /\ UNCHANGED EE
                    ELSE /\ pc' = "emitted"
                         /\ EE' = Emit(EE, metadatas)
                         /\ UNCHANGED result
              /\ UNCHANGED <<params, locatorCall, locatorQueries, metadatas, NFTs, tasks, error>>

\* faulty variant of FanOut: the callbacks are started and the sink is notified
\* afterwards, from turnMetadatasIntoNFTs
FanOutAnnouncing == /\ pc = "emitted"
                    /\ NFTs' = deserializeMetadataOnchain(metadatas)
                    /\ tasks' = [i \in DOMAIN NFTs' |-> NewTask(NFTs'[i])]
                    /\ pc' = "awaitAll"
                    /\ EE' = Emit(EE, metadatas)
                    /\ UNCHANGED <<params, locatorCall, locatorQueries, metadatas, result, error>>

\* lines 199, 146-152: turnMetadatasIntoNFTs is called; NFTs.map starts one async
\* callback per record, each running up to its first await (the holder lookup)
FanOut == /\ pc = "emitted"
          /\ NFTs' = deserializeMetadataOnchain(metadatas)
          /\ tasks' = [i \in DOMAIN NFTs' |-> NewTask(NFTs'[i])]
          /\ pc' = "awaitAll"
          /\ UNCHANGED <<params, locatorCall, locatorQueries, EE, metadatas, result, error>>

\* ------------------------------------------------------------------ the per-record callback

\* the outcomes of deserializeTokenAccount(mint, address): the decode of the
\* account at address; there is no account to read at an undefined address
TokenAccountOutcomes(mint, address) == IF address = Undefined THEN {Threw} ELSE {Threw, [t |-> "TokenAccount", mint |-> mint, address |-> address]}

\* the outcomes of deserializeTokenMint(mint)
TokenMintOutcomes(mint) == {Threw, [t |-> "MintInfo", mint |-> mint]}

\* the outcomes of axios.get(uri)
AxiosOutcomes(uri) == {Threw, [t |-> "response", data |-> [t |-> "json", uri |-> uri]]}

\* the outcomes of Account.getInfo(connection, pda) for an edition address
PrimaryInfoOutcomes(pda) == {Threw} \cup {AccountInfo(pda, key) : key \in Tags}

\* the outcomes of Account.getInfo(connection, masterEditionPDA) in getParentEdition
ParentInfoOutcomes(pda) == {Threw, AccountInfo(pda, MetadataKey.MasterEditionV2)}

\* faulty variant of AwaitHolder: getHolderByMint awaited without the adapter
AwaitHolderBare(tokens) == getHolderByMint(tokens)

\* line 154: await okToFailAsync(getHolderByMint, [...])
AwaitHolder(tokens) == okToFailAsync(getHolderByMint(tokens), FALSE)

\* faulty variant of AwaitTokenAccount: deserializeTokenAccount awaited without
\* the adapter
AwaitTokenAccountBare(r) == r

\* line 158: await okToFailAsync(deserializeTokenAccount, [n.mint, address])
AwaitTokenAccount(r) == okToFailAsync(r, FALSE)

\* line 159: await okToFailAsync(deserializeTokenMint, [n.mint])
AwaitTokenMint(r) == okToFailAsync(r, FALSE)

\* line 160: await okToFailAsync(getExternalMetadata, [n.metadataOnchain.data.uri])
AwaitExternal(response) == okToFailAsync(getExternalMetadata(response), FALSE)

\* faulty variant of AwaitEdition: getEditionInfoByMint awaited without the adapter
AwaitEditionBare(editionOutcome) == editionOutcome

\* line 161: await okToFailAsync(getEditionInfoByMint, [n.mint], true)
AwaitEdition(editionOutcome) == okToFailAsync(editionOutcome, TRUE)

\* lines 108-110: await okToFailAsync(getParentEdition, [editionData])
AwaitParent(editionData, masterInfo) == okToFailAsync(getParentEdition(editionData, masterInfo), FALSE)

\* ({ masterEditionPDA, masterEditionData } = r) of line 108, then the return of
\* lines 119-125: destructuring undefined throws a TypeError, destructuring an
\* object reads its fields (a throw of the await itself is a throw as well)
DestructureParent(locals, r) == IF r = Undefined \/ r = Threw THEN Threw ELSE [locals EXCEPT !.masterEditionPDA = Get(r, "masterEditionPDA"), !.masterEditionData = Get(r, "masterEditionData")]

\* an await of the callback yields r: a throw rejects the callback's promise,
\* anything else is stored and the next await is issued
Resume(t, field, r, next) == IF r = Threw THEN [t EXCEPT !.pc = "rejected"] ELSE [t EXCEPT ![field] = r, !.pc = next]

\* line 161: getEditionInfoByMint has returned or thrown, and with it the last
\* await of the callback: the callback returns
Finish(t, editionOutcome) == Resume([t EXCEPT !.locals = EmptyObject], "edition", AwaitEdition(editionOutcome), "done")

\* faulty variant of Enriched: the object is keyed by the metadata address
\* instead of the mint
EnrichedMiskeyed(n, t) == SpreadOpt([mint |-> n.metadataPDA, address |-> t.address, splTokenInfo |-> t.splTokenInfo, splMintInfo |-> t.splMintInfo, metadataExternal |-> t.metadataExternal], t.edition)

\* lines 155-162: the object the callback for INFT n returned, t being its task
Enriched(n, t) == SpreadOpt([mint |-> n.mint, address |-> t.address, splTokenInfo |-> t.splTokenInfo, splMintInfo |-> t.splMintInfo, metadataExternal |-> t.metadataExternal], t.edition)

\* faulty variant of HolderSettles: the records are enriched in turn, as a
\* for-loop awaiting each callback would do: the holder lookup of record i is
\* issued, and settles, only once every earlier record is done
HolderSettlesInTurn(i) == /\ pc = "awaitAll"
                          /\ tasks[i].pc = "getHolderByMint"
                          /\ \A h \in 1..(i - 1) : tasks[h].pc = "done"
                          /\ \E tokens \in {Threw} \cup TokenLargestAccounts(NFTs[i].mint) :
                                tasks' = [tasks EXCEPT ![i] = Resume(tasks[i], "address", AwaitHolder(tokens), "deserializeTokenAccount")]
                          /\ UNCHANGED <<params, pc, locatorCall, locatorQueries, EE, metadatas, NFTs, result, error>>

\* line 154: the holder lookup of record i settles; line 158 is issued
HolderSettles(i) == /\ pc = "awaitAll"
                    /\ tasks[i].pc = "getHolderByMint"
                    /\ \E tokens \in {Threw} \cup TokenLargestAccounts(NFTs[i].mint) :
                          tasks' = [tasks EXCEPT ![i] = Resume(tasks[i], "address", AwaitHolder(tokens), "deserializeTokenAccount")]
                    /\ UNCHANGED <<params, pc, locatorCall, locatorQueries, EE, metadatas, NFTs, result, error>>

\* faulty variant of TokenAccountSettles: a failed decode is issued again until
\* it succeeds
TokenAccountSettlesRetrying(i) == /\ pc = "awaitAll"
                                  /\ tasks[i].pc = "deserializeTokenAccount"
                                  /\ \E r \in TokenAccountOutcomes(NFTs[i].mint, tasks[i].address) \ {Threw} :
                                        tasks' = [tasks EXCEPT ![i] = Resume(tasks[i], "splTokenInfo", AwaitTokenAccount(r), "deserializeTokenMint")]
                                  /\ UNCHANGED <<params, pc, locatorCall, locatorQueries, EE, metadatas, NFTs, result, error>>

\* line 158: the token-account decode of record i settles; line 159 is issued
TokenAccountSettles(i) == /\ pc = "awaitAll"
                          /\ tasks[i].pc = "deserializeTokenAccount"
                          /\ \E r \in TokenAccountOutcomes(NFTs[i].mint, tasks[i].address) :
                                tasks' = [tasks EXCEPT ![i] = Resume(tasks[i], "splTokenInfo", AwaitTokenAccount(r), "deserializeTokenMint")]
                          /\ UNCHANGED <<params, pc, locatorCall, locatorQueries, EE, metadatas, NFTs, result, error>>

\* line 159: the token-mint decode of record i settles; line 160 is issued
TokenMintSettles(i) == /\ pc = "awaitAll"
                       /\ tasks[i].pc = "deserializeTokenMint"
                       /\ \E r \in TokenMintOutcomes(NFTs[i].mint) :
                             tasks' = [tasks EXCEPT ![i] = Resume(tasks[i], "splMintInfo", AwaitTokenMint(r), "getExternalMetadata")]
                       /\ UNCHANGED <<params, pc, locatorCall, locatorQueries, EE, metadatas, NFTs, result, error>>

\* line 160: the external fetch of record i settles; line 161 calls
\* getEditionInfoByMint, which derives the edition address and fetches it (92-93)
ExternalSettles(i) == /\ pc = "awaitAll"
                      /\ tasks[i].pc = "getExternalMetadata"
                      /\ \E response \in AxiosOutcomes(NFTs[i].metadataOnchain.data.uri) :
                            tasks' = [tasks EXCEPT ![i] = Resume([tasks[i] EXCEPT !.getInfo = <<EditionPDA(NFTs[i].mint)>>], "metadataExternal", AwaitExternal(response), "getEditionInfoByMint")]
                      /\ UNCHANGED <<params, pc, locatorCall, locatorQueries, EE, metadatas, NFTs, result, error>>

\* lines 93-125: the fetch of the edition account of record i settles; the tag is
\* triaged, and either getParentEdition is awaited or the function returns/throws
PrimarySettles(i) == /\ pc = "awaitAll"
                     /\ tasks[i].pc = "getEditionInfoByMint"
                     /\ \E info \in PrimaryInfoOutcomes(EditionPDA(NFTs[i].mint)) :
                           IF info = Threw
                              THEN tasks' = [tasks EXCEPT ![i] = Finish(tasks[i], Threw)]
                              ELSE IF NeedsParent(info)
                                      THEN tasks' = [tasks EXCEPT ![i].key = Number(info.key), ![i].locals = EditionTriage(EditionPDA(NFTs[i].mint), info), ![i].pc = "getParentEdition", ![i].getInfo = Append(tasks[i].getInfo, EditionTriage(EditionPDA(NFTs[i].mint), info).editionData.parent)]
                                      ELSE tasks' = [tasks EXCEPT ![i] = Finish([tasks[i] EXCEPT !.key = Number(info.key)], EditionTriage(EditionPDA(NFTs[i].mint), info))]
                     /\ UNCHANGED <<params, pc, locatorCall, locatorQueries, EE, metadatas, NFTs, result, error>>

\* lines 108-125: the fetch of the parent master edition of record i settles; the
\* result of okToFailAsync is destructured and getEditionInfoByMint returns/throws
ParentSettles(i) == /\ pc = "awaitAll"
                    /\ tasks[i].pc = "getParentEdition"
                    /\ \E masterInfo \in ParentInfoOutcomes(tasks[i].locals.editionData.parent) :
                          tasks' = [tasks EXCEPT ![i] = Finish(tasks[i], DestructureParent(tasks[i].locals, AwaitParent(tasks[i].locals.editionData, masterInfo)))]
                    /\ UNCHANGED <<params, pc, locatorCall, locatorQueries, EE, metadatas, NFTs, result, error>>

\* ------------------------------------------------------------------ the merge

\* faulty variant of AllSettled: the first callback to return fulfils the
\* promise, as Promise.any / Promise.race would
AnySettled(ts) == \E i \in DOMAIN ts : ts[i].pc = "done"

\* Promise.all is fulfilled once every callback has returned
AllSettled(ts) == \A i \in DOMAIN ts : ts[i].pc = "done"

\* Promise.all is rejected as soon as one callback's promise is rejected
AnyRejected(ts) == \E i \in DOMAIN ts : ts[i].pc = "rejected"

\* the array Promise.all fulfils with: the callbacks' values, in the order of ns
EnrichedNFTs(ns, ts) == [i \in DOMAIN ts |-> Enriched(ns[i], ts[i])]

\* lines 151, 165-167, 199: Promise.all settles; fulfilled, the arrays are joined
\* on 'mint' and the result is returned through getNFTs; rejected, the rejection
\* is the rejection of turnMetadatasIntoNFTs and of getNFTs
PromiseAll == /\ pc = "awaitAll"
              /\ IF AnyRejected(tasks)
                    THEN /\ pc' = "raised"
                         /\ error' = "enrichment failed"
                         /\ UNCHANGED <<NFTs, result>>
                    ELSE /\ AllSettled(tasks)
                         /\ NFTs' = joinArraysOnKey(NFTs, EnrichedNFTs(NFTs, tasks), "mint")
                         /\ result' = NFTs'
                         /\ pc' = "returned"
                         /\ UNCHANGED error
              /\ UNCHANGED <<params, locatorCall, locatorQueries, EE, metadatas, tasks>>

\* ------------------------------------------------------------------ specification

Next == \/ GetNFTs
        \/ LocatorRejects
        \/ LocatorResolves
        \/ CheckFound
        \/ FanOut
        \/ \E i \in DOMAIN tasks : HolderSettles(i)
        \/ \E i \in DOMAIN tasks : TokenAccountSettles(i)
        \/ \E i \in DOMAIN tasks : TokenMintSettles(i)
        \/ \E i \in DOMAIN tasks : ExternalSettles(i)
        \/ \E i \in DOMAIN tasks : PrimarySettles(i)
        \/ \E i \in DOMAIN tasks : ParentSettles(i)
        \/ PromiseAll

Spec == Init /\ [][Next]_vars

\* the lookup in flight for record i completes
Completes(i) == \/ HolderSettles(i)
                \/ TokenAccountSettles(i)
                \/ TokenMintSettles(i)
                \/ ExternalSettles(i)
                \/ PrimarySettles(i)
                \/ ParentSettles(i)

\* the run-to-completion scheduling of the event loop, and the assumption that
\* every call issued to a collaborator completes, with a value or a failure:
\* while code can run or a call is pending, one of them runs or settles.  (Weak
\* fairness of each call separately implies this: in a state that no step
\* leaves, a call that is pending stays pending.)
FairSpec == Spec /\ WF_vars(Next)

\* the enrichment of a single record: getNFTs has received an answer of one
\* metadata account and has emitted 'loading'; turnMetadatasIntoNFTs is about
\* to be called with it
RecordInit == /\ params = Consumed
              /\ pc = "emitted"
              /\ locatorCall = Settled("fulfilled")
              /\ locatorQueries = 1
              /\ metadatas = <<Metadata(1)>>
              /\ EE = Emit(<<>>, <<Metadata(1)>>)
              /\ NFTs = <<>>
              /\ tasks = <<>>
              /\ result = <<>>
              /\ error = "none"

\* the steps of turnMetadatasIntoNFTs
TurnNext == \/ FanOut
            \/ \E i \in DOMAIN tasks : HolderSettles(i)
            \/ \E i \in DOMAIN tasks : TokenAccountSettles(i)
            \/ \E i \in DOMAIN tasks : TokenMintSettles(i)
            \/ \E i \in DOMAIN tasks : ExternalSettles(i)
            \/ \E i \in DOMAIN tasks : PrimarySettles(i)
            \/ \E i \in DOMAIN tasks : ParentSettles(i)
            \/ PromiseAll

RecordSpec == RecordInit /\ [][TurnNext]_vars

\* the orchestration of a whole base set: as RecordInit, for any answer of one
\* or more metadata accounts
TurnInit == /\ params = Consumed
            /\ pc = "emitted"
            /\ locatorCall = Settled("fulfilled")
            /\ locatorQueries = 1
            /\ \E answer \in LocatorAnswers : /\ ~NoneFound(answer)
                                              /\ metadatas = answer
                                              /\ EE = Emit(<<>>, answer)
            /\ NFTs = <<>>
            /\ tasks = <<>>
            /\ result = <<>>
            /\ error = "none"

TurnSpec == TurnInit /\ [][TurnNext]_vars

\* ------------------------------------------------------------------ properties

\* the enrichment fields of an INFT
EnrichmentFields == {"address", "splTokenInfo", "splMintInfo", "metadataExternal", "editionType", "editionPDA", "editionData", "masterEditionPDA", "masterEditionData"}

\* every sub-lookup of a finished task came back without a value: the holder
\* lookup (failed, or no holder), both decodes, the external fetch and the edition
\* resolution (which throws when the primary or the parent fetch fails)
AllAbsent(t) == /\ t.pc = "done"
                /\ t.address = Undefined
                /\ t.splTokenInfo = Undefined
                /\ t.splMintInfo = Undefined
                /\ t.metadataExternal = Undefined
                /\ t.edition = EmptyObject

\* every sub-lookup of a finished task came back with a value
AllPresent(t) == /\ t.pc = "done"
                 /\ t.address # Undefined
                 /\ t.splTokenInfo # Undefined
                 /\ t.splMintInfo # Undefined
                 /\ t.metadataExternal # Undefined
                 /\ t.edition # EmptyObject

\* the base fields of output record r are those of metadata account m
BaseOf(r, m) == /\ Get(r, "mint") = PublicKey("mint", m.data.mint.n)
                /\ Get(r, "metadataPDA") = m.pubkey
                /\ Get(r, "metadataOnchain") = m.data

\* C1: when getNFTs returns for a non-empty base set, the collection has the
\* length of the base set and at every position the mint of the base record at
\* that position, whatever the sub-lookups did: nothing dropped, reordered or
\* duplicated
C1_MergeKeepsBase == (pc = "returned" /\ Len(metadatas) >= 1) => (/\ DOMAIN result = 1..Len(metadatas)
                                                                  /\ \A i \in 1..Len(metadatas) : Get(result[i], "mint") = PublicKey("mint", metadatas[i].data.mint.n)
                                                                  /\ \A i, j \in DOMAIN result : i # j => Get(result[i], "mint") # Get(result[j], "mint"))

\* C1 witness: two records returned, the first with every sub-lookup failed, the
\* second with every sub-lookup successful
C1_Witness == /\ pc = "returned"
              /\ Len(result) >= 2
              /\ AllAbsent(tasks[1])
              /\ AllPresent(tasks[2])

\* C2: a record whose sub-lookups all failed is in the output at its position,
\* with its base fields and with every enrichment field absent, and the call has
\* not failed
C2_AllFailedRecordKept == \A i \in DOMAIN tasks : (tasks[i].pc \in {"done", "rejected"}) => (/\ pc # "raised"
                                                                                             /\ error = "none"
                                                                                             /\ (pc = "returned" /\ AllAbsent(tasks[i])) => (/\ i \in DOMAIN result
                                                                                                                                             /\ BaseOf(result[i], metadatas[i])
                                                                                                                                             /\ \A f \in EnrichmentFields : Get(result[i], f) = Undefined))

\* C2 witness: returned, with a second record whose sub-lookups all failed while
\* the first record's all succeeded
C2_Witness == /\ pc = "returned"
              /\ Len(result) >= 2
              /\ AllPresent(tasks[1])
              /\ AllAbsent(tasks[2])
              /\ Get(result[2], "address") = Undefined

\* the name getEnumKeyByEnumValue gives for a member of MetadataKey
KeyName(name) == [t |-> "string", s |-> name]

\* the edition address of the i-th base record
EditionAddress(i) == PublicKey("edition", metadatas[i].data.mint.n)

\* C3: a print (tag EditionV1) whose parent-master fetch failed still resolves:
\* edition resolution does not throw, the record is classified EditionV1 with
\* its own edition address and edition data, and the master fields are absent
C3_ParentFailureKeepsPrint == \A i \in DOMAIN tasks : (tasks[i].pc = "done" /\ Len(tasks[i].getInfo) = 2 /\ Get(tasks[i].edition, "masterEditionData") = Undefined) => (/\ tasks[i].edition # EmptyObject
                                                                                                                                                                       /\ Get(tasks[i].edition, "editionType") = KeyName("EditionV1")
                                                                                                                                                                       /\ Get(tasks[i].edition, "editionPDA") = EditionAddress(i)
                                                                                                                                                                       /\ Get(tasks[i].edition, "editionData") # Undefined
                                                                                                                                                                       /\ Get(tasks[i].edition, "masterEditionPDA") = Undefined)

\* no selector is set: none of owner, a non-empty creators, mint, updateAuthority
NoSelector(p) == /\ p # Consumed
                 /\ p.owner = Undefined
                 /\ (p.creators = Undefined \/ p.creators.length = 0)
                 /\ p.mint = Undefined
                 /\ p.updateAuthority = Undefined

\* C4: getNFTs ends with a full collection, an empty collection or an error; it
\* raises only when no selector was given or the locator query failed, never
\* because of a sub-lookup of the enrichment
C4_ThreeOutcomes == /\ (pc = "raised") => (/\ tasks = <<>>
                                           /\ result = <<>>
                                           /\ \/ locatorCall.status = "rejected" /\ error = LocatorFailure
                                              \/ locatorCall.status = "none" /\ NoSelector(params) /\ error = InvalidSelector)
                    /\ (pc = "returned") => (/\ error = "none"
                                             /\ locatorCall.status = "fulfilled"
                                             /\ \/ Len(metadatas) = 0 /\ result = <<>>
                                                \/ Len(metadatas) >= 1 /\ DOMAIN result = DOMAIN metadatas)
                    /\ (tasks # <<>>) => (pc \in {"awaitAll", "returned"} /\ error = "none")
                    /\ \A i \in DOMAIN tasks : tasks[i].pc # "rejected"

\* C4 witness: a full collection is returned although sub-lookups of both
\* records failed (a holder lookup, an edition resolution)
C4_Witness == /\ pc = "returned"
              /\ Len(result) >= 2
              /\ tasks[1].address = Undefined
              /\ tasks[1].splMintInfo # Undefined
              /\ tasks[2].edition = EmptyObject
              /\ tasks[2].metadataExternal # Undefined

\* C5: the one locator query issued is that of the first selector set in the
\* order owner, creators (non-empty), mint, updateAuthority, with that selector
\* as its argument; never more than one query is issued
C5_SelectorPriority == /\ locatorQueries <= 1
                       /\ (locatorCall.status # "none") => locatorQueries = 1
                       /\ (pc = "awaitLocator") => (/\ locatorCall.status = "pending"
                                                    /\ params # Consumed
                                                    /\ IF params.owner # Undefined THEN locatorCall.fn = "getMetadataByOwner" /\ locatorCall.arg = params.owner
                                                       ELSE IF params.creators # Undefined /\ params.creators.length >= 1 THEN locatorCall.fn = "getMetadataByCreators" /\ locatorCall.arg = params.creators
                                                       ELSE IF params.mint # Undefined THEN locatorCall.fn = "getMetadataByMint" /\ locatorCall.arg = params.mint
                                                       ELSE params.updateAuthority # Undefined /\ locatorCall.fn = "getMetadataByUpdateAuthority" /\ locatorCall.arg = params.updateAuthority)
                       /\ (pc # "called" /\ params # Consumed /\ ~NoSelector(params)) => pc = "awaitLocator"

\* C5 witness: owner unset, creators an empty list, mint and updateAuthority
\* set: the query by mint is the one in flight
C5_Witness == /\ pc = "awaitLocator"
              /\ params.owner = Undefined
              /\ params.creators # Undefined
              /\ params.creators.length = 0
              /\ params.mint # Undefined
              /\ params.updateAuthority # Undefined
              /\ locatorCall.fn = "getMetadataByMint"
              /\ locatorQueries = 1

\* C6: called without a selector, getNFTs has raised InvalidSelector with no
\* ledger query issued, no notification emitted and no enrichment started
C6_NoSelectorRaises == (pc # "called" /\ NoSelector(params)) => (/\ pc = "raised"
                                                                 /\ error = InvalidSelector
                                                                 /\ locatorQueries = 0
                                                                 /\ locatorCall = NoCall
                                                                 /\ EE = <<>>
                                                                 /\ metadatas = <<>>
                                                                 /\ tasks = <<>>
                                                                 /\ result = <<>>)

\* C6 witness: raised for a call whose only selector is an empty creators list
C6_Witness == /\ pc = "raised"
              /\ params # Consumed
              /\ params.owner = Undefined
              /\ params.creators # Undefined
              /\ params.mint = Undefined
              /\ params.updateAuthority = Undefined
              /\ error = InvalidSelector

\* C7: once the locator has answered with zero records, getNFTs returns the
\* empty collection: no notification is emitted, no enrichment is started
C7_EmptyAnswer == (locatorCall.status = "fulfilled" /\ Len(metadatas) = 0) => (/\ pc \in {"located", "returned"}
                                                                               /\ EE = <<>>
                                                                               /\ tasks = <<>>
                                                                               /\ NFTs = <<>>
                                                                               /\ result = <<>>
                                                                               /\ error = "none")

\* C7 witness: returned after an answer of zero records
C7_Witness == /\ pc = "returned"
              /\ locatorCall.status = "fulfilled"
              /\ Len(metadatas) = 0
              /\ result = <<>>

\* C8: every step that writes to the sink writes its first and only
\* notification, after the locator has answered (carrying the number of base
\* records) and before any enrichment lookup exists
C8_OneEarlyNotification == [][EE' # EE => (/\ EE = <<>>
                                          /\ Len(EE') = 1
                                          /\ locatorCall.status = "fulfilled"
                                          /\ EE'[1].found = Len(metadatas)
                                          /\ Len(metadatas) >= 1
                                          /\ tasks = <<>>
                                          /\ tasks' = <<>>)]_vars

\* C8 witness: the notification has been emitted and the fan-out has begun
C8_Witness == /\ pc = "awaitAll"
              /\ Len(EE) = 1
              /\ EE[1].found = 2
              /\ \A i \in DOMAIN tasks : tasks[i].pc = "getHolderByMint"

\* C9: a failed locator query is raised to the caller: no collection, no
\* notification, no enrichment
C9_LocatorFailureRaised == (locatorCall.status = "rejected") => (/\ pc = "raised"
                                                                 /\ error = LocatorFailure
                                                                 /\ result = <<>>
                                                                 /\ EE = <<>>
                                                                 /\ metadatas = <<>>
                                                                 /\ tasks = <<>>)

\* C9 witness: raised after the one locator query was rejected
C9_Witness == /\ pc = "raised"
              /\ locatorCall.status = "rejected"
              /\ locatorQueries = 1

\* C10: a master tag yields the master classification of that tag with exactly
\* one account fetch; a tag of EditionV1 yields the EditionV1 classification
\* with exactly one further fetch, of the parent address embedded in the edition
\* data, issued after the primary fetch
C10_ClassificationAndFetches == \A i \in DOMAIN tasks : /\ Len(tasks[i].getInfo) <= 2
                                                        /\ (tasks[i].pc \in {"getEditionInfoByMint", "getParentEdition", "done"}) => tasks[i].getInfo[1] = EditionAddress(i)
                                                        /\ (tasks[i].pc = "getEditionInfoByMint") => Len(tasks[i].getInfo) = 1
                                                        /\ (tasks[i].pc = "getParentEdition") => (/\ Len(tasks[i].getInfo) = 2
                                                                                                  /\ tasks[i].locals.editionType = KeyName("EditionV1")
                                                                                                  /\ tasks[i].getInfo[2] = tasks[i].locals.editionData.parent)
                                                        /\ (tasks[i].pc = "done" /\ Len(tasks[i].getInfo) = 2) => Get(tasks[i].edition, "editionType") = KeyName("EditionV1")
                                                        /\ (tasks[i].pc = "done" /\ Get(tasks[i].edition, "masterEditionPDA") = EditionAddress(i)) => (/\ Len(tasks[i].getInfo) = 1
                                                                                                                                                       /\ tasks[i].edition.masterEditionData.key = MetadataKey.MasterEditionV1 => tasks[i].edition.editionType = KeyName("MasterEditionV1")
                                                                                                                                                       /\ tasks[i].edition.masterEditionData.key = MetadataKey.MasterEditionV2 => tasks[i].edition.editionType = KeyName("MasterEditionV2"))

\* the tags getEditionInfoByMint triages (the cases of its switch)
TriagedTags == {MetadataKey.EditionV1, MetadataKey.MasterEditionV1, MetadataKey.MasterEditionV2}

\* the switch of lines 103-117 takes no case: no tag was read, or another tag
Untriaged(key) == key = Undefined \/ key.v \notin TriagedTags

\* the four classifications of the specification, as a reading of editionType:
\* the names of the three triaged tags, and Unknown for anything else (another
\* name, undefined, or no editionType at all)
Classification(editionType) == IF editionType = KeyName("MasterEditionV1") THEN "MasterV1"
                               ELSE IF editionType = KeyName("MasterEditionV2") THEN "MasterV2"
                               ELSE IF editionType = KeyName("EditionV1") THEN "PrintV1"
                               ELSE "Unknown"

\* the edition data fields of an enriched record
EditionDataFields == {"editionPDA", "editionData", "masterEditionPDA", "masterEditionData"}

\* C11: when the fetch of the primary edition account failed (no tag was read),
\* or the account carries a tag other than EditionV1, MasterEditionV1 and
\* MasterEditionV2, the edition part of the record classifies as Unknown, all
\* four edition data fields are absent, in the callback's value and in the
\* returned record, and no parent fetch was issued (one account fetch only)
C11_UnknownEdition == \A i \in DOMAIN tasks : (tasks[i].pc = "done" /\ Untriaged(tasks[i].key)) => (/\ Classification(Get(tasks[i].edition, "editionType")) = "Unknown"
                                                                                                          /\ \A f \in EditionDataFields : Get(tasks[i].edition, f) = Undefined
                                                                                                          /\ tasks[i].getInfo = <<EditionAddress(i)>>
                                                                                                          /\ (pc = "returned") => (/\ Classification(Get(result[i], "editionType")) = "Unknown"
                                                                                                                                  /\ \A g \in EditionDataFields : Get(result[i], g) = Undefined))

\* C11 witness: a record whose edition account carries the tag MetadataV1 is
\* returned with that tag's name as editionType and no edition data
C11_Witness == /\ pc = "returned"
               /\ Len(result) >= 1
               /\ tasks[1].key = Number(MetadataKey.MetadataV1)
               /\ Get(result[1], "editionType") = KeyName("MetadataV1")
               /\ Get(result[1], "masterEditionPDA") = Undefined

\* C12: the sub-lookups of a record are isolated: each of address, splMintInfo
\* and metadataExternal is absent or the value of its own lookup, splTokenInfo is
\* absent or the decode of the account at the record's address, and the part of
\* the edition that the primary account gives (editionType and, for a print,
\* its own address and data; for a master, its address and data) is there
\* whenever the primary account was read, whatever the parent resolution did
C12_SubLookupsIsolated == \A i \in DOMAIN tasks : (tasks[i].pc = "done") =>
                             /\ tasks[i].address \in {Undefined, PublicKey("tokenAccount", 1)}
                             /\ tasks[i].splTokenInfo \in {Undefined, [t |-> "TokenAccount", mint |-> NFTs[i].mint, address |-> tasks[i].address]}
                             /\ tasks[i].splMintInfo \in {Undefined, [t |-> "MintInfo", mint |-> NFTs[i].mint]}
                             /\ tasks[i].metadataExternal \in {Undefined, [t |-> "json", uri |-> NFTs[i].metadataOnchain.data.uri]}
                             /\ (tasks[i].key = Undefined) => (tasks[i].edition = EmptyObject)
                             /\ (tasks[i].key # Undefined) => (Get(tasks[i].edition, "editionType") = getEnumKeyByEnumValue(MetadataKey, tasks[i].key.v))
                             /\ (tasks[i].key = Number(MetadataKey.EditionV1)) =>
                                   /\ Get(tasks[i].edition, "editionPDA") = EditionAddress(i)
                                   /\ Get(tasks[i].edition, "editionData") = EditionDataOf(EditionAddress(i), AccountInfo(EditionAddress(i), MetadataKey.EditionV1))
                                   /\ Get(tasks[i].edition, "masterEditionPDA") \in {Undefined, PublicKey("masterEdition", NFTs[i].mint.n)}
                             /\ (tasks[i].key \in {Number(MetadataKey.MasterEditionV1), Number(MetadataKey.MasterEditionV2)}) =>
                                   /\ Get(tasks[i].edition, "masterEditionPDA") = EditionAddress(i)
                                   /\ Get(tasks[i].edition, "masterEditionData") = MasterEditionDataOf(EditionAddress(i), AccountInfo(EditionAddress(i), tasks[i].key.v))

\* C13: the merge and the return happen only once the callback of every record
\* has returned: while some record has a lookup in flight the call is still
\* waiting, with nothing returned or raised, whatever failed so far; and each
\* returned record has its base fields and, field by field, what its own
\* callback returned, whichever callback returned first
C13_MergeAfterAll == /\ (pc = "returned" /\ tasks # <<>>) =>
                           /\ AllSettled(tasks)
                           /\ DOMAIN result = DOMAIN tasks
                           /\ \A i \in DOMAIN tasks :
                                 /\ BaseOf(result[i], metadatas[i])
                                 /\ \A f \in {"address", "splTokenInfo", "splMintInfo", "metadataExternal"} : Get(result[i], f) = tasks[i][f]
                                 /\ \A g \in EnrichmentFields \ {"address", "splTokenInfo", "splMintInfo", "metadataExternal"} : Get(result[i], g) = Get(tasks[i].edition, g)
                     /\ (\E i \in DOMAIN tasks : tasks[i].pc # "done") =>
                           /\ pc = "awaitAll"
                           /\ result = <<>>
                           /\ error = "none"

\* C13 witness: returned for two records, the first with a failed external
\* fetch among successful lookups, the second with every lookup successful
C13_Witness == /\ pc = "returned"
               /\ Len(result) >= 2
               /\ tasks[1].splMintInfo # Undefined
               /\ tasks[1].metadataExternal = Undefined
               /\ Get(result[1], "metadataExternal") = Undefined
               /\ AllPresent(tasks[2])
               /\ Get(result[2], "metadataExternal") # Undefined

\* the five sub-lookups of a record's enrichment, by the function awaited
SubLookups == {"getHolderByMint", "deserializeTokenAccount", "deserializeTokenMint", "getExternalMetadata", "getEditionInfoByMint"}

\* the sub-lookups of task t that have been issued and have not completed: the
\* one the callback is suspended on (the parent fetch being part of the edition
\* resolution)
InFlight(t) == IF t.pc = "getParentEdition" THEN {"getEditionInfoByMint"} ELSE {t.pc} \cap SubLookups

\* C14 as stated: the five sub-lookups of a record do not wait for one another,
\* so that a callback that has started has all five of them in flight
C14_FiveInFlight == \A i \in DOMAIN tasks : (tasks[i].pc = "getHolderByMint") => (InFlight(tasks[i]) = SubLookups)

\* C14 amended: the five sub-lookups of a record run one after another, in the
\* order holder lookup, token-account decode, token-mint decode, external
\* fetch, edition resolution: at most one is in flight, no lookup has a result
\* while an earlier one is in flight, and no edition account is fetched before
\* the external fetch completed
C14_OneAfterAnother == \A i \in DOMAIN tasks : /\ Cardinality(InFlight(tasks[i])) <= 1
                                               /\ (tasks[i].pc = "getHolderByMint") => (tasks[i].address = Undefined /\ tasks[i].splTokenInfo = Undefined)
                                               /\ (tasks[i].pc \in {"getHolderByMint", "deserializeTokenAccount"}) => (tasks[i].splTokenInfo = Undefined /\ tasks[i].splMintInfo = Undefined)
                                               /\ (tasks[i].pc \in {"getHolderByMint", "deserializeTokenAccount", "deserializeTokenMint"}) => (tasks[i].metadataExternal = Undefined)
                                               /\ (tasks[i].pc \in {"getHolderByMint", "deserializeTokenAccount", "deserializeTokenMint", "getExternalMetadata"}) => (tasks[i].getInfo = <<>> /\ tasks[i].key = Undefined /\ tasks[i].edition = EmptyObject)
                                               /\ (tasks[i].pc \in {"getEditionInfoByMint", "getParentEdition", "done"}) => (Len(tasks[i].getInfo) >= 1)

\* C14 witness: the token-mint decode of the first record is in flight after its
\* holder lookup and token-account decode gave their results, and neither the
\* external fetch nor the edition fetch has been issued
C14_Witness == /\ pc = "awaitAll"
               /\ tasks[1].pc = "deserializeTokenMint"
               /\ tasks[1].address # Undefined
               /\ tasks[1].splTokenInfo # Undefined
               /\ tasks[1].metadataExternal = Undefined
               /\ tasks[1].getInfo = <<>>

\* C15: while the orchestrator waits, every record of the base set has its
\* callback, and every record that is not done has a lookup in flight that can
\* complete at once, whatever the state of the other records (no record waits
\* for an earlier one); the returned collection is in the order of the base set
C15_RecordsConcurrent == /\ (pc = "awaitAll") => (/\ DOMAIN tasks = DOMAIN metadatas
                                                 /\ \A i \in DOMAIN tasks : (tasks[i].pc # "done") => (Cardinality(InFlight(tasks[i])) = 1 /\ ENABLED Completes(i)))
                         /\ (pc = "returned" /\ tasks # <<>>) => (/\ DOMAIN result = DOMAIN metadatas
                                                                /\ \A i \in DOMAIN result : BaseOf(result[i], metadatas[i]))

\* C15 witness: the last record of the base set is done while the first record
\* still has its first lookup in flight
C15_Witness == /\ pc = "awaitAll"
               /\ Len(tasks) >= 2
               /\ tasks[1].pc = "getHolderByMint"
               /\ tasks[Len(tasks)].pc = "done"

\* C16: when every issued collaborator call completes, every call of getNFTs
\* terminates: it returns a collection or raises, whatever lookups failed
C16_Terminates == <>(pc \in {"returned", "raised"})

\* C16 witness: getNFTs has returned although every sub-lookup of every record
\* of a base set of two or more records failed
C16_Witness == /\ pc = "returned"
               /\ Len(result) >= 2
               /\ \A i \in DOMAIN tasks : AllAbsent(tasks[i])

\* the classification of the edition part of a finished task
ClassOf(t) == Classification(Get(t.edition, "editionType"))

\* C17 as stated: editionData is present only for a print or a master,
\* masterEditionPDA only for a print, masterEditionData only when a master
\* edition was resolved (the record's own, or the parent of a print)
C17_MasterAddressOnlyForPrint == \A i \in DOMAIN tasks : (tasks[i].pc = "done") =>
                                    /\ (Get(tasks[i].edition, "editionData") # Undefined) => (ClassOf(tasks[i]) \in {"PrintV1", "MasterV1", "MasterV2"})
                                    /\ (Get(tasks[i].edition, "masterEditionPDA") # Undefined) => (ClassOf(tasks[i]) = "PrintV1")
                                    /\ (Get(tasks[i].edition, "masterEditionData") # Undefined) => (ClassOf(tasks[i]) \in {"MasterV1", "MasterV2"} \/ Len(tasks[i].getInfo) = 2)

\* C17 amended: editionData (and editionPDA) is present only for a print;
\* masterEditionPDA is present only for a print, where it is the parent named
\* in the edition data, and for a master, where it is the record's own edition
\* address; masterEditionData is present only with masterEditionPDA, decoded
\* from the account at that address (the parent of a print having been fetched)
C17_OptionalFields == \A i \in DOMAIN tasks : (tasks[i].pc = "done") =>
                         /\ (Get(tasks[i].edition, "editionData") # Undefined \/ Get(tasks[i].edition, "editionPDA") # Undefined) => (ClassOf(tasks[i]) = "PrintV1")
                         /\ (Get(tasks[i].edition, "masterEditionPDA") # Undefined) => (ClassOf(tasks[i]) \in {"PrintV1", "MasterV1", "MasterV2"})
                         /\ (ClassOf(tasks[i]) = "PrintV1") =>
                               /\ tasks[i].edition.editionData # Undefined
                               /\ tasks[i].edition.masterEditionPDA = tasks[i].edition.editionData.parent
                               /\ tasks[i].getInfo = <<EditionAddress(i), tasks[i].edition.masterEditionPDA>>
                         /\ (ClassOf(tasks[i]) \in {"MasterV1", "MasterV2"}) =>
                               /\ tasks[i].edition.masterEditionPDA = EditionAddress(i)
                               /\ tasks[i].edition.editionData = Undefined
                               /\ tasks[i].getInfo = <<EditionAddress(i)>>
                         /\ (Get(tasks[i].edition, "masterEditionData") # Undefined) =>
                               /\ Get(tasks[i].edition, "masterEditionPDA") # Undefined
                               /\ tasks[i].edition.masterEditionData.of = tasks[i].edition.masterEditionPDA

\* C17 witness: a record classified MasterEditionV2 is returned with the master
\* edition address set to its own edition address and no edition data
C17_Witness == /\ pc = "returned"
               /\ Len(result) >= 1
               /\ ClassOf(tasks[1]) = "MasterV2"
               /\ Get(result[1], "masterEditionPDA") = EditionAddress(1)
               /\ Get(result[1], "masterEditionData") # Undefined
               /\ Get(result[1], "editionData") = Undefined

\* C18: when the merge is about to run, the callbacks have returned one entry
\* per base record, the entry at a position carrying the mint of the base record
\* at that position, and the mints of the base records differ: every base
\* record has exactly one entry and no entry matches no base record; before the
\* merge the base records are those decoded from the answer, and after it every
\* record still has these base fields
C18_OneEntryPerRecord == /\ (pc = "awaitAll" /\ AllSettled(tasks)) =>
                               /\ NFTs = deserializeMetadataOnchain(metadatas)
                               /\ DOMAIN tasks = DOMAIN NFTs
                               /\ \A j \in DOMAIN tasks : Enriched(NFTs[j], tasks[j]).mint = NFTs[j].mint
                               /\ \A i, j \in DOMAIN NFTs : (i # j) => (NFTs[i].mint # NFTs[j].mint)
                         /\ (pc = "returned" /\ tasks # <<>>) =>
                               /\ DOMAIN result = DOMAIN metadatas
                               /\ \A i \in DOMAIN result : BaseOf(result[i], metadatas[i])

\* C18 witness: every callback of a base set of two or more records has
\* returned, the first with an edition, and the merge has not run yet
C18_Witness == /\ pc = "awaitAll"
               /\ Len(tasks) >= 2
               /\ AllSettled(tasks)
               /\ tasks[1].edition # EmptyObject
               /\ result = <<>>

\* C19: the token-account decode of a record has no result while the holder
\* lookup is in flight; it is issued when the holder lookup has completed, with
\* the address that lookup gave, absent or not, and it completes; a result is
\* the decode of the account at that address; with an absent address there is
\* no result, the callback is not rejected, and the token-mint decode, the
\* external fetch and the edition resolution follow as for any other record
C19_DecodeAfterHolder == \A i \in DOMAIN tasks :
                            /\ (tasks[i].pc = "getHolderByMint") => (tasks[i].splTokenInfo = Undefined /\ tasks[i].address = Undefined)
                            /\ (pc = "awaitAll" /\ tasks[i].pc = "deserializeTokenAccount") => (tasks[i].splTokenInfo = Undefined /\ ENABLED TokenAccountSettles(i))
                            /\ tasks[i].splTokenInfo \in {Undefined, [t |-> "TokenAccount", mint |-> NFTs[i].mint, address |-> tasks[i].address]}
                            /\ (tasks[i].address = Undefined) => (tasks[i].splTokenInfo = Undefined)
                            /\ tasks[i].pc # "rejected"
                            /\ (pc = "awaitAll" /\ tasks[i].address = Undefined /\ tasks[i].pc = "deserializeTokenMint") => (ENABLED TokenMintSettles(i))
                            /\ (pc = "awaitAll" /\ tasks[i].address = Undefined /\ tasks[i].pc = "getExternalMetadata") => (ENABLED ExternalSettles(i))
                            /\ (pc = "awaitAll" /\ tasks[i].address = Undefined /\ tasks[i].pc = "getEditionInfoByMint") => (ENABLED PrimarySettles(i))

\* C19 witness: a record without holder address is returned with no token
\* account information and with its mint information, its external metadata
\* and its edition
C19_Witness == /\ pc = "returned"
               /\ Len(result) >= 1
               /\ tasks[1].address = Undefined
               /\ Get(result[1], "splTokenInfo") = Undefined
               /\ Get(result[1], "splMintInfo") # Undefined
               /\ Get(result[1], "metadataExternal") # Undefined
               /\ Get(result[1], "editionType") # Undefined

\* C20: for every ranked list the ledger may answer a record's holder query
\* with, getHolderByMint returns the address of the list's first entry when the
\* list has one or more entries, however many, and undefined, not a throw, when
\* it is empty; so the address a callback holds after its holder lookup is
\* absent or the address of the top-ranked account, and the callback goes on
C20_FirstHolder == \A i \in DOMAIN tasks :
                      /\ \A tokens \in TokenLargestAccounts(NFTs[i].mint) :
                            /\ (Len(tokens.value) >= 1) => (getHolderByMint(tokens) = tokens.value[1].address /\ tokens.value[1].rank = 1)
                            /\ (Len(tokens.value) = 0) => (getHolderByMint(tokens) = Undefined /\ getHolderByMint(tokens) # Threw)
                      /\ tasks[i].address \in {Undefined, PublicKey("tokenAccount", 1)}
                      /\ (tasks[i].address # Undefined) => (\E tokens \in TokenLargestAccounts(NFTs[i].mint) : Len(tokens.value) = MaxHolders /\ tasks[i].address = getHolderByMint(tokens))
                      /\ (tasks[i].pc # "getHolderByMint") => (tasks[i].pc # "rejected")

\* C20 witness: the holder lookup of a record gave the top-ranked account and
\* the callback has gone on to the token-account decode
C20_Witness == /\ pc = "awaitAll"
               /\ Len(tasks) >= 1
               /\ tasks[1].pc = "deserializeTokenAccount"
               /\ tasks[1].address = PublicKey("tokenAccount", 1)
               /\ tasks[1].splTokenInfo = Undefined

====
